---- MODULE Spec2Model ----
\* Model of src/maintenance.rs: the maintenance loop `run` and the per-block
\* round `process_block`.  Every `.await` of the source is one step of the
\* model; the capabilities (p2p client, metrics, block receiver, shutdown
\* controller) are the environment and answer nondeterministically.
EXTENDS Integers, Sequences, FiniteSets, TLC

\* ---------------------------------------------------------------- bounds
MaxEvents == 2      \* BlockVerified events the senders publish
MaxBlock == 3       \* block numbers are 0..MaxBlock
MaxPeers == 1       \* routing-table peer counts are 0..MaxPeers

\* ------------------------------------------------ values of the environment
BlockNumbers == 0..MaxBlock
PruningIntervals == {0, 2}
FlushIntervals == {0, 3}
ErrTexts == {"disk full", "timed out"}
SoftErrTexts == {"store busy"}
RecvErrors == {"Closed", "Lagged"}
ConfidenceValues == {92}
ReplicationValues == {5}
QueryTimeoutValues == {10}

StaticConfigParams ==
    [block_confidence_treshold : ConfidenceValues,
     replication_factor : ReplicationValues,
     query_timeout : QueryTimeoutValues,
     pruning_interval : PruningIntervals,
     telemetry_flush_interval : FlushIntervals]

VARIABLES
    static_config_params,  \* the StaticConfigParams passed to run
    kademlia_rocksdb,      \* build feature "kademlia-rocksdb"
    published,             \* everything the stream has delivered so far (history)
    block_receiver,        \* items queued in the receiver, oldest first
    pc,                    \* position of the task running `run`
    block_number,          \* argument of the current process_block
    calls,                 \* capability calls of the current round, in order
    peers_num,             \* locals of process_block (line 55)
    pub_peers_num,
    result,                \* `result` of the loop body (line 95)
    processed,             \* block numbers process_block was invoked with (history)
    completed,             \* number of process_block invocations that returned
    shutdown,              \* reasons passed to trigger_shutdown, in order
    shutdown_result,       \* what trigger_shutdown returned (discarded by `let _`)
    soft_failed            \* soft actions that have failed so far (history)

vars == <<static_config_params, kademlia_rocksdb, published, block_receiver, pc,
          block_number, calls, peers_num, pub_peers_num, result, processed,
          completed, shutdown, shutdown_result, soft_failed>>

\* ------------------------------------------------------------ stream items
BlockVerified(n) == [type |-> "block", block_num |-> n, error |-> ""]
RecvError(k) == [type |-> "error", block_num |-> 0, error |-> k]

\* Display of tokio's broadcast RecvError, the text `error.into()` carries.
RecvErrorText(k) == IF k = "Closed" THEN "channel closed" ELSE "channel lagged"

\* ---------------------------------------------------------------- results
NoResult == [kind |-> "none", chain |-> <<>>]
Ok == [kind |-> "ok", chain |-> <<>>]
Err(chain) == [kind |-> "err", chain |-> chain]

\* eyre's wrap_err: the context becomes the outermost message of the chain.
WrapErr(context, e) == <<context, e>>

ShrinkContext == "Unable to perform Kademlia map shrink"
MapSizeContext == "Unable to get Kademlia map size"

FormatPlain(chain) == <<chain[1]>>

\* format!("{error:#}"): the whole chain, outermost first, joined by ": ".
RECURSIVE FormatAlt(_)
FormatAlt(chain) ==
    IF Len(chain) <= 1 THEN chain
    ELSE <<chain[1], ": ">> \o FormatAlt(Tail(chain))

\* ------------------------------------------------------- capability calls
Call(op, ok, e) == [op |-> op, ok |-> ok, err |-> e, metric |-> "", value |-> 0]
RecordCall(metric, value) ==
    [op |-> "record", ok |-> TRUE, err |-> "", metric |-> metric, value |-> value]

HardActions == {"shrink_kademlia_map", "get_kademlia_map_size",
                "count_dht_entries", "list_connected_peers"}
SoftActions == {"prune_expired_records", "flush"}

\* ----------------------------------------------------------- process_block
isDueSkipsZero(n, interval) == n # 0 /\ n % interval = 0

isDueOncePerBlock(n, interval) ==
    /\ n % interval = 0
    /\ \A i \in 1..(Len(processed) - 1) : processed[i] # n

\* Lines 29 and 37: `block_number % interval == 0`.
isDue(n, interval) == n % interval = 0

PruningCompiledInAlways == TRUE

\* Line 28: #[cfg(not(feature = "kademlia-rocksdb"))].
PruningCompiledIn == ~kademlia_rocksdb

StepOrderHardFirst ==
    <<"shrink", "map_size", "count", "list", "prune", "flush", "record">>

\* Lines 28-79: the statements of process_block in source order.
StepOrder ==
    <<"prune", "flush", "shrink", "map_size", "count", "list", "record">>

\* The statement that follows statement `at`.
After(at) ==
    LET i == CHOOSE k \in DOMAIN StepOrder : StepOrder[k] = at
    IN StepOrder[i + 1]

SoftOutcomePropagates(ok, e, next) ==
    IF ok THEN [pc |-> next, result |-> NoResult]
    ELSE [pc |-> "check", result |-> Err(<<e>>)]

SoftOutcomeRetries(ok, e, next) ==
    [pc |-> IF ok THEN next ELSE pc, result |-> NoResult]

\* Both arms of the `match` on a soft action only log; the round goes on.
SoftOutcome(ok, e, next) == [pc |-> next, result |-> NoResult]

HardOutcomeSwallows(ok, chain, next) == [pc |-> next, result |-> NoResult]

\* The `?` after a hard action: an error returns from process_block at once.
HardOutcome(ok, chain, next) ==
    IF ok THEN [pc |-> next, result |-> NoResult]
    ELSE [pc |-> "check", result |-> Err(chain)]

RoundUnchanged == UNCHANGED <<static_config_params, kademlia_rocksdb, published,
                              block_receiver, block_number, processed, shutdown,
                              shutdown_result>>

\* Lines 28-35: the pruning gate, compiled out under kademlia-rocksdb.
Prune ==
    /\ pc = "prune"
    /\ RoundUnchanged
    /\ UNCHANGED <<peers_num, pub_peers_num, completed>>
    /\ IF ~PruningCompiledIn
       THEN /\ pc' = After("prune")
            /\ UNCHANGED <<calls, result, soft_failed>>
       ELSE IF static_config_params.pruning_interval = 0
       THEN /\ pc' = "panicked"
            /\ UNCHANGED <<calls, result, soft_failed>>
       ELSE IF isDue(block_number, static_config_params.pruning_interval)
       THEN \E ok \in BOOLEAN : \E e \in SoftErrTexts :
              LET o == SoftOutcome(ok, e, After("prune")) IN
              /\ calls' = Append(calls, Call("prune_expired_records", ok,
                                             IF ok THEN "" ELSE e))
              /\ soft_failed' = IF ok THEN soft_failed
                                 ELSE soft_failed \cup {"prune_expired_records"}
              /\ pc' = o.pc
              /\ result' = o.result
       ELSE /\ pc' = After("prune")
            /\ UNCHANGED <<calls, result, soft_failed>>

FlushZeroNeverDue ==
    /\ pc = "flush"
    /\ RoundUnchanged
    /\ UNCHANGED <<peers_num, pub_peers_num, completed>>
    /\ IF /\ static_config_params.telemetry_flush_interval # 0
          /\ isDue(block_number, static_config_params.telemetry_flush_interval)
       THEN \E ok \in BOOLEAN : \E e \in SoftErrTexts :
              /\ calls' = Append(calls, Call("flush", ok, IF ok THEN "" ELSE e))
              /\ soft_failed' = IF ok THEN soft_failed
                                 ELSE soft_failed \cup {"flush"}
              /\ pc' = After("flush")
              /\ result' = NoResult
       ELSE /\ pc' = After("flush")
            /\ UNCHANGED <<calls, result, soft_failed>>

\* Lines 37-43: the telemetry flush gate.
Flush ==
    /\ pc = "flush"
    /\ RoundUnchanged
    /\ UNCHANGED <<peers_num, pub_peers_num, completed>>
    /\ IF static_config_params.telemetry_flush_interval = 0
       THEN /\ pc' = "panicked"
            /\ UNCHANGED <<calls, result, soft_failed>>
       ELSE IF isDue(block_number, static_config_params.telemetry_flush_interval)
       THEN \E ok \in BOOLEAN : \E e \in SoftErrTexts :
              LET o == SoftOutcome(ok, e, After("flush")) IN
              /\ calls' = Append(calls, Call("flush", ok, IF ok THEN "" ELSE e))
              /\ soft_failed' = IF ok THEN soft_failed
                                 ELSE soft_failed \cup {"flush"}
              /\ pc' = o.pc
              /\ result' = o.result
       ELSE /\ pc' = After("flush")
            /\ UNCHANGED <<calls, result, soft_failed>>

\* One hard action: `op` at position `at`, its error wrapped into `chain(e)`.
HardStep(at, op, ok, e, chain, next) ==
    LET o == HardOutcome(ok, chain, next) IN
    /\ pc = at
    /\ (ok => e = "disk full")
    /\ calls' = Append(calls, Call(op, ok, IF ok THEN "" ELSE e))
    /\ pc' = o.pc
    /\ result' = o.result
    /\ completed' = IF o.pc = "check" THEN completed + 1 ELSE completed
    /\ UNCHANGED soft_failed
    /\ RoundUnchanged

\* Lines 45-48.
Shrink ==
    \E ok \in BOOLEAN : \E e \in ErrTexts :
      /\ HardStep("shrink", "shrink_kademlia_map", ok, e,
                  WrapErr(ShrinkContext, e), After("shrink"))
      /\ UNCHANGED <<peers_num, pub_peers_num>>

\* Lines 50-53.
MapSize ==
    \E ok \in BOOLEAN : \E e \in ErrTexts :
      /\ HardStep("map_size", "get_kademlia_map_size", ok, e,
                  WrapErr(MapSizeContext, e), After("map_size"))
      /\ UNCHANGED <<peers_num, pub_peers_num>>

\* Line 55.
CountDhtEntries ==
    \E ok \in BOOLEAN : \E e \in ErrTexts :
    \E n \in 0..MaxPeers : \E p \in 0..MaxPeers :
      /\ p <= n
      /\ (~ok => n = 0 /\ p = 0)
      /\ HardStep("count", "count_dht_entries", ok, e, <<e>>, After("count"))
      /\ peers_num' = IF ok THEN n ELSE peers_num
      /\ pub_peers_num' = IF ok THEN p ELSE pub_peers_num

\* Line 58.
ListConnectedPeers ==
    \E ok \in BOOLEAN : \E e \in ErrTexts :
      /\ HardStep("list", "list_connected_peers", ok, e, <<e>>, After("list"))
      /\ UNCHANGED <<peers_num, pub_peers_num>>

RecordedMetricsWithPublic(config, peers, pub_peers) ==
    << RecordCall("DHTConnectedPeers", peers),
       RecordCall("DHTPublicPeers", pub_peers),
       RecordCall("BlockConfidenceThreshold", config.block_confidence_treshold),
       RecordCall("DHTReplicationFactor", config.replication_factor),
       RecordCall("DHTQueryTimeout", config.query_timeout),
       RecordCall("Up", 0) >>

RecordedMetricsUpFirst(config, peers, pub_peers) ==
    << RecordCall("Up", 0),
       RecordCall("DHTConnectedPeers", peers),
       RecordCall("BlockConfidenceThreshold", config.block_confidence_treshold),
       RecordCall("DHTReplicationFactor", config.replication_factor),
       RecordCall("DHTQueryTimeout", config.query_timeout) >>

\* Lines 61-79: the metrics.record calls of a round, in source order.
RecordedMetrics(config, peers, pub_peers) ==
    << RecordCall("DHTConnectedPeers", peers),
       RecordCall("BlockConfidenceThreshold", config.block_confidence_treshold),
       RecordCall("DHTReplicationFactor", config.replication_factor),
       RecordCall("DHTQueryTimeout", config.query_timeout),
       RecordCall("Up", 0) >>

RecordsIn(cs) == Cardinality({i \in DOMAIN cs : cs[i].op = "record"})

\* One metrics.record(..).await; after the last one process_block returns Ok(()).
Record ==
    LET ms == RecordedMetrics(static_config_params, peers_num, pub_peers_num)
        k == RecordsIn(calls) + 1
    IN
    /\ pc = "record"
    /\ k <= Len(ms)
    /\ calls' = Append(calls, ms[k])
    /\ IF k = Len(ms)
       THEN /\ pc' = "check"
            /\ result' = Ok
            /\ completed' = completed + 1
       ELSE /\ UNCHANGED <<pc, result, completed>>
    /\ UNCHANGED <<peers_num, pub_peers_num, soft_failed>>
    /\ RoundUnchanged

\* ---------------------------------------------------------------------- run
RecvReady(at) == at = "recv"

RecvItemNewest(queue) == queue[Len(queue)]

\* recv() hands out the oldest queued item.
RecvItem(queue) == Head(queue)

RecvRest(queue) == Tail(queue)

\* Lines 95-100: block_receiver.recv().await and the match on it.
Recv ==
    /\ RecvReady(pc)
    /\ block_receiver # <<>>
    /\ LET item == RecvItem(block_receiver) IN
       /\ block_receiver' = RecvRest(block_receiver)
       /\ calls' = <<>>
       /\ IF item.type = "block"
          THEN /\ block_number' = item.block_num
               /\ processed' = Append(processed, item.block_num)
               /\ pc' = StepOrder[1]
               /\ result' = NoResult
          ELSE /\ result' = Err(<<RecvErrorText(item.error)>>)
               /\ pc' = "check"
               /\ UNCHANGED <<block_number, processed>>
    /\ UNCHANGED <<static_config_params, kademlia_rocksdb, published, peers_num,
                   pub_peers_num, completed, shutdown, shutdown_result,
                   soft_failed>>

ShutdownReasonsAlways(r) ==
    IF r.kind = "err" THEN <<FormatAlt(r.chain)>> ELSE <<<<"ok">>>>

\* Line 103: the trigger_shutdown calls one loop iteration makes for `result`.
ShutdownReasons(r) == IF r.kind = "err" THEN <<FormatAlt(r.chain)>> ELSE <<>>

LoopBreaksNever(r) == FALSE

LoopBreaksIfTriggerOk(r) == r.kind = "err" /\ shutdown_result' = "ok"

\* Line 104: `break` inside `if let Err(error) = result`.
LoopBreaks(r) == r.kind = "err"

\* Lines 102-105.
Check ==
    /\ pc = "check"
    /\ shutdown' = shutdown \o ShutdownReasons(result)
    /\ IF ShutdownReasons(result) # <<>>
       THEN \E r \in {"ok", "err"} : shutdown_result' = r
       ELSE UNCHANGED shutdown_result
    /\ IF LoopBreaks(result)
       THEN /\ pc' = "returned"
            /\ UNCHANGED <<calls, result, block_number, peers_num, pub_peers_num>>
       ELSE /\ pc' = "recv"
            /\ calls' = <<>>
            /\ result' = NoResult
            /\ block_number' = 0
            /\ peers_num' = 0
            /\ pub_peers_num' = 0
    /\ UNCHANGED <<static_config_params, kademlia_rocksdb, published,
                   block_receiver, processed, completed, soft_failed>>

\* -------------------------------------------------------------- environment
ErrorPublished == \E i \in DOMAIN published : published[i].type = "error"
StreamClosed == \E i \in DOMAIN published :
                  published[i].type = "error" /\ published[i].error = "Closed"
BlocksPublished == Cardinality({i \in DOMAIN published : published[i].type = "block"})

EnvUnchanged == UNCHANGED <<static_config_params, kademlia_rocksdb, pc,
                            block_number, calls, peers_num, pub_peers_num, result,
                            processed, completed, shutdown, shutdown_result,
                            soft_failed>>

\* A sender publishes a BlockVerified event.
Publish ==
    \E n \in BlockNumbers :
      /\ pc \notin {"returned", "panicked"}
      /\ ~StreamClosed
      /\ BlocksPublished < MaxEvents
      /\ published' = Append(published, BlockVerified(n))
      /\ block_receiver' = Append(block_receiver, BlockVerified(n))
      /\ EnvUnchanged

\* The receiver lags behind, or every sender is dropped.
StreamFails ==
    \E k \in RecvErrors :
      /\ pc \notin {"returned", "panicked"}
      /\ ~ErrorPublished
      /\ published' = Append(published, RecvError(k))
      /\ block_receiver' = Append(block_receiver, RecvError(k))
      /\ EnvUnchanged

\* --------------------------------------------------------------------- spec
Init ==
    /\ static_config_params \in StaticConfigParams
    /\ kademlia_rocksdb \in BOOLEAN
    /\ published = <<>>
    /\ block_receiver = <<>>
    /\ pc = "recv"
    /\ block_number = 0
    /\ calls = <<>>
    /\ peers_num = 0
    /\ pub_peers_num = 0
    /\ result = NoResult
    /\ processed = <<>>
    /\ completed = 0
    /\ shutdown = <<>>
    /\ shutdown_result = "none"
    /\ soft_failed = {}

process_block ==
    Prune \/ Flush \/ Shrink \/ MapSize \/ CountDhtEntries \/ ListConnectedPeers
      \/ Record

run == Recv \/ process_block \/ Check

Next == run \/ Publish \/ StreamFails

Spec == Init /\ [][Next]_vars

\* The executor keeps polling the task, and the stream eventually fails.
LiveSpec == Spec /\ WF_vars(run) /\ WF_vars(StreamFails)

\* ------------------------------------------------------------------ helpers
Invoked(op) == \E i \in DOMAIN calls : calls[i].op = op
CountOf(op) == Cardinality({i \in DOMAIN calls : calls[i].op = op})
Failed(op) == \E i \in DOMAIN calls : calls[i].op = op /\ ~calls[i].ok
FailedHard == \E i \in DOMAIN calls : calls[i].op \in HardActions /\ ~calls[i].ok
AllHardOk == \A op \in HardActions :
               \E i \in DOMAIN calls : calls[i].op = op /\ calls[i].ok
Contains(msg, token) == \E i \in DOMAIN msg : msg[i] = token
Consumed == Len(published) - Len(block_receiver)
\* process_block has returned to run and the loop has not yet moved on
RoundReturned == pc \in {"check", "returned"} /\ calls # <<>>
\* the current round is past both gates
PastGates == \/ pc \in {"shrink", "map_size", "count", "list", "record"}
             \/ RoundReturned
Recorded == {<<calls[i].metric, calls[i].value>> :
               i \in {j \in DOMAIN calls : calls[j].op = "record"}}

\* C1: a hard action that returns an error is the last call of its round (no
\* later hard action, no metrics.record), and the round's result is Fatal,
\* whatever the earlier soft and hard actions returned.
C1_HardFailureIsFatal ==
    \A i \in DOMAIN calls :
      (calls[i].op \in HardActions /\ ~calls[i].ok) =>
        /\ i = Len(calls)
        /\ pc \in {"check", "returned"}
        /\ result.kind = "err"

C1_Witness ==
    /\ pc = "check"
    /\ Failed("list_connected_peers")
    /\ Failed("prune_expired_records")
    /\ Invoked("count_dht_entries")

\* C2: a round that has returned with all four hard actions successful returned
\* Continue, whatever prune and flush returned; a round that returned Fatal had
\* a failed hard action (a soft failure alone never makes a round Fatal).
C2_AllHardOkContinues ==
    (pc = "check" /\ calls # <<>>) =>
      /\ (AllHardOk => result.kind = "ok")
      /\ (result.kind = "err" => FailedHard)

C2_Witness ==
    /\ pc = "check"
    /\ result.kind = "ok"
    /\ Failed("prune_expired_records")
    /\ Failed("flush")

\* C3: trigger_shutdown is never called while the loop is running, never more
\* than once, and exactly once when the loop has returned.
C3_ShutdownOnce ==
    /\ Len(shutdown) <= 1
    /\ (pc # "returned" => shutdown = <<>>)
    /\ (pc = "returned" => Len(shutdown) = 1)

C3_Witness == pc = "returned" /\ Len(shutdown) = 1 /\ completed = 2

\* C4: once recv has returned the stream's error, nothing further is consumed,
\* no process_block runs for it or after it, the loop is stopping or stopped,
\* and trigger_shutdown gets exactly that error's message.
C4_RecvErrorStops ==
    \A i \in DOMAIN published :
      (published[i].type = "error" /\ Consumed >= i) =>
        /\ Consumed = i
        /\ pc \in {"check", "returned"}
        /\ calls = <<>>
        /\ Len(processed) = i - 1
        /\ completed = i - 1
        /\ result = Err(<<RecvErrorText(published[i].error)>>)
        /\ (pc = "check" => shutdown = <<>>)
        /\ (pc = "returned" =>
              shutdown = << <<RecvErrorText(published[i].error)>> >>)

C4_Witness ==
    /\ pc = "returned"
    /\ calls = <<>>
    /\ block_receiver # <<>>
    /\ Consumed >= 1
    /\ published[Consumed].type = "error"

\* C5: in the default build, a round past its gates has invoked prune exactly
\* when block_number mod pruning_interval = 0 and flush exactly when
\* block_number mod telemetry_flush_interval = 0, each at most once and
\* independently of the other.
C5_GatesFireIffDue ==
    (PastGates /\ ~kademlia_rocksdb) =>
      /\ CountOf("prune_expired_records") =
           (IF block_number % static_config_params.pruning_interval = 0
            THEN 1 ELSE 0)
      /\ CountOf("flush") =
           (IF block_number % static_config_params.telemetry_flush_interval = 0
            THEN 1 ELSE 0)

C5_Witness ==
    /\ PastGates
    /\ ~kademlia_rocksdb
    /\ block_number # 0
    /\ Invoked("flush")
    /\ ~Invoked("prune_expired_records")

\* C6: metrics.record is called in a round only after all four hard actions
\* succeeded, a round that returned after four successful hard actions made
\* all its record calls, and a round with a failed hard action made none.
C6_RecordsIffStep7 ==
    /\ (CountOf("record") > 0 => AllHardOk)
    /\ (FailedHard => CountOf("record") = 0)
    /\ ((RoundReturned /\ AllHardOk) => CountOf("record") = 5)
    /\ (pc = "record" <=> (AllHardOk /\ ~RoundReturned))

C6_Witness ==
    /\ pc = "check"
    /\ CountOf("record") = 5
    /\ Failed("flush")

\* C7 as claimed: every completed round records both the peer count and the
\* public-peer count (two peer-count records) besides the static values and Up.
StaticOrUp == {"BlockConfidenceThreshold", "DHTReplicationFactor",
               "DHTQueryTimeout", "Up"}

C7_RecordsPublicPeers ==
    (pc = "check" /\ result.kind = "ok") =>
      \E i \in DOMAIN calls : \E j \in DOMAIN calls :
        /\ i # j
        /\ calls[i].op = "record" /\ calls[i].metric \notin StaticOrUp
        /\ calls[j].op = "record" /\ calls[j].metric \notin StaticOrUp
        /\ calls[i].value = peers_num
        /\ calls[j].value = pub_peers_num

\* C7 as amended: every completed round records, regardless of the gates,
\* the current peer count, the three static config values and Up, and
\* nothing else: the public-peer count is not passed to metrics.record.
C7_RecordsPeersStaticUp ==
    (pc = "check" /\ result.kind = "ok") =>
      Recorded = { <<"DHTConnectedPeers", peers_num>>,
                   <<"BlockConfidenceThreshold",
                     static_config_params.block_confidence_treshold>>,
                   <<"DHTReplicationFactor",
                     static_config_params.replication_factor>>,
                   <<"DHTQueryTimeout", static_config_params.query_timeout>>,
                   <<"Up", 0>> }

C7_Witness ==
    /\ pc = "check"
    /\ result.kind = "ok"
    /\ pub_peers_num # peers_num
    /\ ~Invoked("prune_expired_records")
    /\ ~Invoked("flush")

\* C8: the reason given to trigger_shutdown names the failing step: a shrink
\* failure gives the shrink context and the underlying error and the map size
\* is never read; a map-size failure gives the map-size context and the
\* underlying error; count, list and recv errors are passed on bare.
C8_ReasonIdentifiesStep ==
    pc = "returned" =>
      /\ Len(shutdown) = 1
      /\ LET reason == shutdown[1] IN
         IF calls = <<>>
         THEN /\ Consumed >= 1
              /\ published[Consumed].type = "error"
              /\ reason = <<RecvErrorText(published[Consumed].error)>>
         ELSE LET last == calls[Len(calls)] IN
              /\ last.op \in HardActions
              /\ last.err \in ErrTexts
              /\ (last.op = "shrink_kademlia_map" =>
                    /\ Contains(reason, ShrinkContext)
                    /\ Contains(reason, last.err)
                    /\ ~Contains(reason, MapSizeContext)
                    /\ ~Invoked("get_kademlia_map_size"))
              /\ (last.op = "get_kademlia_map_size" =>
                    /\ Contains(reason, MapSizeContext)
                    /\ Contains(reason, last.err)
                    /\ ~Contains(reason, ShrinkContext))
              /\ (last.op \in {"count_dht_entries", "list_connected_peers"} =>
                    reason = <<last.err>>)

C8_Witness ==
    /\ pc = "returned"
    /\ Failed("shrink_kademlia_map")
    /\ Contains(shutdown[1], "timed out")

\* C9: process_block is invoked for the delivered events in delivery order,
\* none skipped, merged or reordered; at most one round is in progress, and
\* recv is only awaited when every started round has returned.
C9_InOrderOneAtATime ==
    /\ Len(processed) <= Consumed
    /\ \A i \in 1..Len(processed) :
         /\ published[i].type = "block"
         /\ processed[i] = published[i].block_num
    /\ Cardinality({i \in 1..Consumed : published[i].type = "block"})
         = Len(processed)
    /\ Len(processed) - completed \in {0, 1}
    /\ (pc \in {"recv", "check", "returned"} => completed = Len(processed))
    /\ (pc \notin {"recv", "check", "returned"} =>
          /\ Len(processed) = completed + 1
          /\ block_number = processed[Len(processed)])

C9_Witness ==
    /\ pc = "check"
    /\ Len(processed) = 2
    /\ processed[1] # processed[2]
    /\ completed = 2

\* C10: the loop returns only from the check of a Fatal result and stays
\* returned; after a Continue result it goes back to recv; and when no gate
\* divides by zero, every call returns and the stream eventually fails or a
\* round is Fatal, the loop eventually returns.
NoZeroGate ==
    /\ static_config_params.telemetry_flush_interval # 0
    /\ (kademlia_rocksdb \/ static_config_params.pruning_interval # 0)

C10_ReturnsOnlyWhenFatal ==
    /\ [][(pc # "returned" /\ pc' = "returned") =>
            (pc = "check" /\ result.kind = "err")]_vars
    /\ [][pc = "returned" => pc' = "returned"]_vars
    /\ [][(pc = "check" /\ result.kind = "ok") => pc' \in {"check", "recv"}]_vars
    /\ (NoZeroGate => <>(pc = "returned"))

C10_Witness ==
    /\ pc = "returned"
    /\ Len(processed) = 2
    /\ calls = <<>>

\* C11: the calls of a round occur in the order prune, flush, shrink, map
\* size, count, list, record, one call per step; so a round that is Fatal
\* because of a hard action has invoked each due soft action exactly once,
\* before the failing hard action.
Rank(op) ==
    CASE op = "prune_expired_records" -> 1
      [] op = "flush" -> 2
      [] op = "shrink_kademlia_map" -> 3
      [] op = "get_kademlia_map_size" -> 4
      [] op = "count_dht_entries" -> 5
      [] op = "list_connected_peers" -> 6
      [] op = "record" -> 7

C11_FixedOrder ==
    /\ \A i \in DOMAIN calls : \A j \in DOMAIN calls :
         i < j => \/ Rank(calls[i].op) < Rank(calls[j].op)
                  \/ (calls[i].op = "record" /\ calls[j].op = "record")
    /\ FailedHard =>
         /\ ( /\ ~kademlia_rocksdb
              /\ static_config_params.pruning_interval # 0
              /\ block_number % static_config_params.pruning_interval = 0 )
            => CountOf("prune_expired_records") = 1
         /\ ( /\ static_config_params.telemetry_flush_interval # 0
              /\ block_number % static_config_params.telemetry_flush_interval = 0 )
            => CountOf("flush") = 1

C11_Witness ==
    /\ pc = "check"
    /\ Failed("shrink_kademlia_map")
    /\ calls[1].op = "prune_expired_records"
    /\ calls[2].op = "flush"
    /\ Len(calls) = 3

\* C12: a completed round has made exactly five metrics.record calls, as its
\* last five calls and in this order: DHTConnectedPeers with the total-peers
\* value count_dht_entries returned in this round, BlockConfidenceThreshold,
\* DHTReplicationFactor and DHTQueryTimeout with the values of the
\* configuration, then Up; a round that has recorded anything is never Fatal.
IsRecord(c) == c.op = "record"

C12_FiveRecordsInOrder ==
    /\ CountOf("record") <= 5
    /\ (CountOf("record") > 0 => result.kind # "err")
    /\ (pc = "check" /\ result.kind = "ok") =>
         LET rs == SelectSeq(calls, IsRecord) IN
         /\ Len(rs) = 5
         /\ rs = SubSeq(calls, Len(calls) - 4, Len(calls))
         /\ calls[Len(calls) - 5].op = "list_connected_peers"
         /\ rs[1].metric = "DHTConnectedPeers" /\ rs[1].value = peers_num
         /\ rs[2].metric = "BlockConfidenceThreshold"
         /\ rs[2].value = static_config_params.block_confidence_treshold
         /\ rs[3].metric = "DHTReplicationFactor"
         /\ rs[3].value = static_config_params.replication_factor
         /\ rs[4].metric = "DHTQueryTimeout"
         /\ rs[4].value = static_config_params.query_timeout
         /\ rs[5].metric = "Up"

C12_Witness ==
    /\ pc = "check"
    /\ result.kind = "ok"
    /\ peers_num = 1
    /\ pub_peers_num = 0
    /\ Len(processed) = 2
    /\ calls[Len(calls)].metric = "Up"

\* C13: a soft action is invoked at most once in a round, also when it fails;
\* and once it has failed (in this round or an earlier one) a round still
\* invokes it exactly when its own block number is due: no retry on a block
\* that is not due, no skipping of a block that is.
C13_NoRetryOfSoftActions ==
    /\ CountOf("prune_expired_records") <= 1
    /\ CountOf("flush") <= 1
    /\ (PastGates /\ "prune_expired_records" \in soft_failed) =>
         (Invoked("prune_expired_records") <=>
            block_number % static_config_params.pruning_interval = 0)
    /\ (PastGates /\ "flush" \in soft_failed) =>
         (Invoked("flush") <=>
            block_number % static_config_params.telemetry_flush_interval = 0)

C13_Witness ==
    /\ PastGates
    /\ Len(processed) = 2
    /\ soft_failed = {"prune_expired_records", "flush"}
    /\ ~Invoked("prune_expired_records")
    /\ ~Invoked("flush")

\* C14: in every round, whatever was delivered before, the calls made and the
\* outcome are the ones fixed by the block number, the configuration and the
\* results of this round's calls alone: the calls are a prefix of the sequence
\* the block number and the configuration prescribe, cut only after a failed
\* hard action (Fatal) or complete (Continue).  A due block number that is
\* delivered again triggers the gated actions again.
ExpectedOps(b) ==
    (IF /\ ~kademlia_rocksdb
        /\ b % static_config_params.pruning_interval = 0
     THEN <<"prune_expired_records">> ELSE <<>>)
    \o (IF b % static_config_params.telemetry_flush_interval = 0
        THEN <<"flush">> ELSE <<>>)
    \o <<"shrink_kademlia_map", "get_kademlia_map_size", "count_dht_entries",
         "list_connected_peers", "record", "record", "record", "record",
         "record">>

C14_StatelessRounds ==
    PastGates =>
      LET exp == ExpectedOps(block_number)
          n == Len(calls)
      IN
      /\ n <= Len(exp)
      /\ \A i \in 1..n : calls[i].op = exp[i]
      /\ \A i \in 1..(n - 1) : calls[i].op \in HardActions => calls[i].ok
      /\ (result.kind = "err" <=>
            (n > 0 /\ calls[n].op \in HardActions /\ ~calls[n].ok))
      /\ (result.kind = "ok" <=> n = Len(exp))
      /\ (result.kind = "none" <=> pc \notin {"check", "returned"})

C14_Witness ==
    /\ pc = "check"
    /\ result.kind = "ok"
    /\ Len(processed) = 2
    /\ processed[1] = processed[2]
    /\ Invoked("prune_expired_records")
    /\ Invoked("flush")

\* C15: in the kademlia-rocksdb build prune_expired_records is never invoked,
\* for any block number and any pruning_interval (a zero pruning_interval does
\* not even abort the round), and the rest of the round is as in the default
\* build: flush exactly when due, then the four hard actions, the five records
\* and Continue, or Fatal at the first failed hard action.
C15_RocksdbBuildNeverPrunes ==
    kademlia_rocksdb =>
      /\ ~Invoked("prune_expired_records")
      /\ "prune_expired_records" \notin soft_failed
      /\ (pc = "panicked" =>
            /\ static_config_params.telemetry_flush_interval = 0
            /\ calls = <<>>)
      /\ PastGates =>
           /\ CountOf("flush") =
                (IF block_number % static_config_params.telemetry_flush_interval = 0
                 THEN 1 ELSE 0)
           /\ (Invoked("flush") => calls[1].op = "flush")
           /\ \A op \in HardActions : CountOf(op) <= 1
      /\ RoundReturned =>
           /\ (result.kind = "ok" <=> AllHardOk)
           /\ (result.kind = "ok" <=> CountOf("record") = 5)
           /\ (result.kind = "err" <=> FailedHard)

C15_Witness ==
    /\ kademlia_rocksdb
    /\ static_config_params.pruning_interval = 0
    /\ pc = "check"
    /\ result.kind = "ok"
    /\ Invoked("flush")

\* C16: the step that calls trigger_shutdown ends the loop whatever the call
\* returns, and from then on nothing is called any more: no recv, no p2p
\* client call, no metrics call, no second trigger_shutdown.
C16_NothingAfterShutdown ==
    /\ [](shutdown # <<>> => pc = "returned")
    /\ [][(shutdown = <<>> /\ shutdown' # <<>>) =>
            /\ pc' = "returned"
            /\ Len(shutdown') = 1
            /\ shutdown_result' \in {"ok", "err"}
            /\ calls' = calls
            /\ block_receiver' = block_receiver]_vars
    /\ [][shutdown # <<>> =>
            /\ pc' = "returned"
            /\ calls' = calls
            /\ block_receiver' = block_receiver
            /\ processed' = processed
            /\ shutdown' = shutdown
            /\ shutdown_result' = shutdown_result]_vars

C16_Witness ==
    /\ pc = "returned"
    /\ shutdown_result = "err"
    /\ Len(shutdown) = 1
    /\ block_receiver # <<>>

\* C17: when telemetry_flush_interval is 0, or pruning_interval is 0 in the
\* default build, the first round never gets past the gates: it ends in the
\* panic of the modulus test with neither Continue nor Fatal, no hard action
\* and no metrics.record call is made, no second event is received and
\* trigger_shutdown is never called; nothing else panics.
ZeroGate ==
    \/ static_config_params.telemetry_flush_interval = 0
    \/ (~kademlia_rocksdb /\ static_config_params.pruning_interval = 0)

C17_ZeroIntervalAborts ==
    /\ (pc = "panicked" => ZeroGate)
    /\ (ZeroGate /\ processed # <<>>) =>
         /\ Len(processed) = 1
         /\ completed = 0
         /\ Consumed = 1
         /\ pc \in {"prune", "flush", "panicked"}
         /\ result.kind = "none"
         /\ \A i \in DOMAIN calls : calls[i].op = "prune_expired_records"
         /\ shutdown = <<>>
         /\ shutdown_result = "none"
         /\ (pc = "flush" => static_config_params.telemetry_flush_interval = 0)

C17_Witness ==
    /\ pc = "panicked"
    /\ static_config_params.telemetry_flush_interval = 0
    /\ Invoked("prune_expired_records")
    /\ block_receiver # <<>>
    /\ shutdown = <<>>

====
